---- MODULE Spec2Model ----
(***************************************************************************)
(* Model of the pull-request review action (main.ts): the event gate, the  *)
(* test-requirement analysis, the exemption detection, the warning comment *)
(* and webhook, the per-hunk AI review and the final review / approval.    *)
(*                                                                         *)
(* Strings the code inspects (paths, descriptions, comment bodies, line    *)
(* numbers) are sequences of one-character strings, so that substring,     *)
(* glob and number conversions are computed as the code computes them.     *)
(***************************************************************************)
EXTENDS Integers, Sequences, FiniteSets, TLC

\* ------------------------------------------------------------------------
\* Bounds of the model
\* ------------------------------------------------------------------------
MaxFiles == 2

MaxReviews == 1

MaxAnalysisFiles == 2

\* ------------------------------------------------------------------------
\* JavaScript string primitives
\* ------------------------------------------------------------------------
UpperChars == <<"A","B","C","D","E","F","G","H","I","J","K","L","M",
                "N","O","P","Q","R","S","T","U","V","W","X","Y","Z","A~">>

LowerChars == <<"a","b","c","d","e","f","g","h","i","j","k","l","m",
                "n","o","p","q","r","s","t","u","v","w","x","y","z","a~">>

LowerChar(c) ==
  IF \E i \in DOMAIN UpperChars : UpperChars[i] = c
  THEN LowerChars[CHOOSE i \in DOMAIN UpperChars : UpperChars[i] = c]
  ELSE c

toLowerCase(s) == [i \in 1..Len(s) |-> LowerChar(s[i])]

\* String.prototype.includes
includes(s, sub) ==
  \E i \in 0..(Len(s) - Len(sub)) : SubSeq(s, i + 1, i + Len(sub)) = sub

startsWith(s, pre) ==
  Len(pre) <= Len(s) /\ SubSeq(s, 1, Len(pre)) = pre

\* String.prototype.lastIndexOf for a single character: 0-based, -1 if absent
lastIndexOf(s, c) ==
  IF \E i \in 1..Len(s) : s[i] = c
  THEN (CHOOSE i \in 1..Len(s) : s[i] = c /\ \A j \in (i+1)..Len(s) : s[j] # c) - 1
  ELSE -1

\* String.prototype.slice(start): a negative start counts from the end
slice(s, start) ==
  LET from == IF start < 0
              THEN (IF Len(s) + start < 0 THEN 0 ELSE Len(s) + start)
              ELSE (IF start > Len(s) THEN Len(s) ELSE start)
  IN SubSeq(s, from + 1, Len(s))

WhiteSpace == {" ", "\n", "\t"}

RECURSIVE trimStart(_)
trimStart(s) ==
  IF s # <<>> /\ s[1] \in WhiteSpace THEN trimStart(Tail(s)) ELSE s

RECURSIVE trimEnd(_)
trimEnd(s) ==
  IF s # <<>> /\ s[Len(s)] \in WhiteSpace
  THEN trimEnd(SubSeq(s, 1, Len(s) - 1)) ELSE s

trim(s) == trimEnd(trimStart(s))

\* String.prototype.split for a one-character separator
RECURSIVE split(_, _)
split(s, sep) ==
  IF \E i \in 1..Len(s) : s[i] = sep
  THEN LET i == CHOOSE k \in 1..Len(s) :
                  s[k] = sep /\ \A j \in 1..(k-1) : s[j] # sep
       IN <<SubSeq(s, 1, i - 1)>> \o split(SubSeq(s, i + 1, Len(s)), sep)
  ELSE <<s>>

Digits == <<"0","1","2","3","4","5","6","7","8","9">>

IsDigit(c) == \E d \in 1..10 : Digits[d] = c

DigitVal(c) == (CHOOSE d \in 1..10 : Digits[d] = c) - 1

RECURSIVE DecimalValue(_)
DecimalValue(s) ==
  IF s = <<>> THEN 0
  ELSE 10 * DecimalValue(SubSeq(s, 1, Len(s) - 1)) + DigitVal(s[Len(s)])

NaN == "NaN"

\* Number(x) for the string forms an AI backend returns as lineNumber:
\* surrounding white space is ignored, the empty string is 0, a run of
\* decimal digits is its value, anything else is NaN
Number(s) ==
  LET t == trim(s)
  IN IF \A i \in 1..Len(t) : IsDigit(t[i]) THEN DecimalValue(t) ELSE NaN


\* ------------------------------------------------------------------------
\* minimatch(path, pattern), for patterns made of literal characters, "*"
\* inside a path segment and "**" as a whole segment (no options set)
\* ------------------------------------------------------------------------
GLOBSTAR == <<"*","*">>

HasStar(p) == \E i \in 1..Len(p) : p[i] = "*"

\* "*" inside a segment: the regular expression [^/]*?
RECURSIVE StarMatch(_, _)
StarMatch(p, f) ==
  IF p = <<>> THEN f = <<>>
  ELSE IF p[1] = "*"
       THEN StarMatch(Tail(p), f) \/ (f # <<>> /\ StarMatch(p, Tail(f)))
       ELSE f # <<>> /\ f[1] = p[1] /\ StarMatch(Tail(p), Tail(f))

\* one pattern segment against one path segment: a segment without magic is
\* compared as a string; a segment with "*" never matches the empty segment,
\* and one that starts with "*" never matches a segment that starts with "."
MatchSeg(p, f) ==
  IF ~HasStar(p) THEN f = p
  ELSE /\ f # <<>>
       /\ (p[1] = "*" => f[1] # ".")
       /\ StarMatch(p, f)

DotSegment(f) == f # <<>> /\ f[1] = "."

RECURSIVE matchOne(_, _)
RECURSIVE swallow(_, _)
\* Minimatch.matchOne(file, pattern, partial = false) on segment lists
matchOne(file, pattern) ==
  IF file = <<>> \/ pattern = <<>>
  THEN IF file = <<>> /\ pattern = <<>> THEN TRUE
       ELSE IF file = <<>> THEN FALSE
       ELSE Len(file) = 1 /\ file[1] = <<>>
  ELSE IF pattern[1] = GLOBSTAR
       THEN IF Len(pattern) = 1
            THEN \A i \in 1..Len(file) : ~DotSegment(file[i])
            ELSE swallow(file, Tail(pattern))
       ELSE MatchSeg(pattern[1], file[1]) /\ matchOne(Tail(file), Tail(pattern))

\* the loop of matchOne that lets "**" swallow leading path segments
swallow(file, rest) ==
  IF file = <<>> THEN FALSE
  ELSE \/ matchOne(file, rest)
       \/ (~DotSegment(file[1]) /\ swallow(Tail(file), rest))

minimatch(path, pattern) ==
  IF pattern = <<>> THEN path = <<>>
  ELSE matchOne(split(path, "/"), split(pattern, "/"))

\* ------------------------------------------------------------------------
\* Test-requirement analysis
\* ------------------------------------------------------------------------
TEST_PATTERNS == <<
  <<"*","*","/","t","e","s","t","/","*","*">>,
  <<"*","*","/","t","e","s","t","s","/","*","*">>,
  <<"*","*","/","*","t","e","s","t","*">>,
  <<"*","*","/","*","T","e","s","t","*">>,
  <<"*","*","/","*","s","p","e","c","*">>,
  <<"*","*","/","*","S","p","e","c","*">>,
  <<"*","*","/","t","e","s","t","_","*",".","p","y">>,
  <<"*","*","/","*","_","t","e","s","t",".","p","y">>,
  <<"*","*","/","t","e","s","t","s",".","p","y">>,
  <<"*","*","/","c","o","n","f","t","e","s","t",".","p","y">>,
  <<"*","*","/","*",".","t","e","s","t",".","t","s">>,
  <<"*","*","/","*",".","t","e","s","t",".","j","s">>,
  <<"*","*","/","*",".","s","p","e","c",".","t","s">>,
  <<"*","*","/","*",".","s","p","e","c",".","j","s">>,
  <<"*","*","/","_","_","t","e","s","t","s","_","_","/","*","*">>,
  <<"*","*","/","t","e","s","t","i","n","g","/","*","*">>,
  <<"*","*","/","p","y","t","e","s","t","/","*","*">>,
  <<"*","*","/","u","n","i","t","t","e","s","t","/","*","*">> >>

EXEMPTION_KEYWORDS == <<
  <<"n","o"," ","t","e","s","t","s"," ","n","e","e","d","e","d">>,
  <<"t","e","s","t"," ","e","x","e","m","p","t">>,
  <<"s","k","i","p"," ","t","e","s","t","s">>,
  <<"s","e","m"," ","n","e","c","e","s","s","i","d","a","d","e"," ","d","e"," ","t","e","s","t","e">>,
  <<"n","a~","o"," ","r","e","q","u","e","r"," ","t","e","s","t","e">> >>

testableExtensions == {
  <<".","p","y">>,
  <<".","j","s">>,
  <<".","t","s">>,
  <<".","j","s","x">>,
  <<".","t","s","x">>,
  <<".","v","u","e">>,
  <<".","r","b">>,
  <<".","p","h","p">>,
  <<".","j","a","v","a">>,
  <<".","g","o">>,
  <<".","c","s">>,
  <<".","c","p","p">>,
  <<".","r","s">> }

excludePatterns == {
  <<".","c","o","n","f","i","g",".">>,
  <<".","c","o","n","f",".">>,
  <<".","d",".","t","s">>,
  <<"s","e","t","t","i","n","g","s",".","p","y">>,
  <<"u","r","l","s",".","p","y">>,
  <<"w","s","g","i",".","p","y">>,
  <<"a","s","g","i",".","p","y">>,
  <<"m","a","n","a","g","e",".","p","y">> }

MatchesTestPattern(filename) ==
  \E k \in 1..Len(TEST_PATTERNS) : minimatch(filename, TEST_PATTERNS[k])

\* needsTests without the test-pattern check
needsTests_noTestPatterns(file) ==
  LET filename == file.to
      ext == slice(filename, lastIndexOf(filename, "."))
  IN /\ ext \in testableExtensions
     /\ ~\E pattern \in excludePatterns : includes(filename, pattern)

\* needsTests without the deny-list
needsTests_noDenyList(file) ==
  LET filename == file.to
      ext == slice(filename, lastIndexOf(filename, "."))
  IN IF MatchesTestPattern(filename) THEN FALSE
     ELSE ext \in testableExtensions

needsTests(file) ==
  LET filename == file.to
      ext == slice(filename, lastIndexOf(filename, "."))
  IN IF MatchesTestPattern(filename) THEN FALSE
     ELSE /\ ext \in testableExtensions
          /\ ~\E pattern \in excludePatterns : includes(filename, pattern)

\* file.replace(/\.[^/.]+$/, ''): drops a final ".ext" that holds no "/"
stripExtension(s) ==
  LET i == lastIndexOf(s, ".")
  IN IF /\ i >= 0
        /\ i + 1 < Len(s)
        /\ \A j \in (i+2)..Len(s) : s[j] # "/"
     THEN SubSeq(s, 1, i) ELSE s

\* s.replace(/lit/, rep): the first occurrence only, s itself without one
replaceFirst(s, lit, rep) ==
  IF includes(s, lit)
  THEN LET i == CHOOSE k \in 0..(Len(s) - Len(lit)) :
                  /\ SubSeq(s, k + 1, k + Len(lit)) = lit
                  /\ \A j \in 0..(k-1) : SubSeq(s, j + 1, j + Len(lit)) # lit
       IN SubSeq(s, 1, i) \o rep \o SubSeq(s, i + Len(lit) + 1, Len(s))
  ELSE s

\* s.replace(/lit$/, rep)
replaceSuffix(s, lit, rep) ==
  IF Len(lit) <= Len(s) /\ SubSeq(s, Len(s) - Len(lit) + 1, Len(s)) = lit
  THEN SubSeq(s, 1, Len(s) - Len(lit)) \o rep
  ELSE s

possibleTestPatterns(file) ==
  LET baseNameWithoutExt == stripExtension(file)
  IN << baseNameWithoutExt \o <<"_","t","e","s","t">>,
        <<"t","e","s","t","_">> \o baseNameWithoutExt,
        baseNameWithoutExt \o <<".","t","e","s","t">>,
        baseNameWithoutExt \o <<".","s","p","e","c">>,
        replaceFirst(baseNameWithoutExt, <<"s","r","c","/">>, <<"t","e","s","t","/">>),
        replaceFirst(baseNameWithoutExt, <<"s","r","c","/">>, <<"t","e","s","t","s","/">>),
        replaceFirst(baseNameWithoutExt, <<"a","p","p","/">>, <<"t","e","s","t","s","/">>),
        replaceSuffix(baseNameWithoutExt, <<"v","i","e","w","s",".","p","y">>,
                      <<"t","e","s","t","s",".","p","y">>),
        replaceSuffix(baseNameWithoutExt, <<"m","o","d","e","l","s",".","p","y">>,
                      <<"t","e","s","t","s",".","p","y">>) >>

\* the filter of analyzeTests that recognises a changed file as a test file
isTestFile(file) ==
  /\ file.to # <<>>
  /\ \/ MatchesTestPattern(file.to)
     \/ includes(toLowerCase(file.to), <<"t","e","s","t">>)

isAffectedFile(file) == file.to # <<>> /\ needsTests(file)

PathsOf(files) == [i \in 1..Len(files) |-> files[i].to]

isMissingTest(file, testFiles) ==
  LET pats == possibleTestPatterns(file)
  IN ~\E t \in 1..Len(testFiles) : \E k \in 1..Len(pats) :
        includes(toLowerCase(testFiles[t]), toLowerCase(pats[k]))

\* analyzeTests with hasTests scoped to the files that need tests
analyzeTests_scoped(parsedDiff) ==
  LET affectedFiles == PathsOf(SelectSeq(parsedDiff, isAffectedFile))
      testFiles == PathsOf(SelectSeq(parsedDiff, isTestFile))
      missing(f) == isMissingTest(f, testFiles)
  IN [ hasTests |-> Len(SelectSeq(affectedFiles, missing)) = 0,
       missingTests |-> SelectSeq(affectedFiles, missing),
       affectedFiles |-> affectedFiles ]

analyzeTests(parsedDiff) ==
  LET affectedFiles == PathsOf(SelectSeq(parsedDiff, isAffectedFile))
      testFiles == PathsOf(SelectSeq(parsedDiff, isTestFile))
      missing(f) == isMissingTest(f, testFiles)
  IN [ hasTests |-> Len(testFiles) > 0,
       missingTests |-> SelectSeq(affectedFiles, missing),
       affectedFiles |-> affectedFiles ]

\* hasTestExemption comparing the description as written
hasTestExemption_caseSensitive(description) ==
  \E k \in 1..Len(EXEMPTION_KEYWORDS) :
     includes(description, EXEMPTION_KEYWORDS[k])

hasTestExemption(description) ==
  \E k \in 1..Len(EXEMPTION_KEYWORDS) :
     includes(toLowerCase(description), toLowerCase(EXEMPTION_KEYWORDS[k]))


\* ------------------------------------------------------------------------
\* Inputs of a run: the trigger event, the PR description, the parsed diff,
\* the answers of the AI backend
\* ------------------------------------------------------------------------
P_util == <<"s","r","c","/","u","t","i","l",".","t","s">>

P_utilTest == <<"s","r","c","/","u","t","i","l",".","t","e","s","t",".","t","s">>

P_contest == <<"d","o","c","s","/","c","o","n","t","e","s","t",".","m","d">>

P_devNull == <<"/","d","e","v","/","n","u","l","l">>

Paths == { P_util, P_utilTest, P_contest, P_devNull }

\* a file of parse-diff: the destination path and the number of its chunks
Files == {
  [ to |-> P_util,     chunks |-> 2 ],
  [ to |-> P_utilTest, chunks |-> 1 ],
  [ to |-> P_contest,  chunks |-> 1 ],
  [ to |-> P_devNull,  chunks |-> 1 ] }

SeqsUpTo(S, n) == UNION { [1..k -> S] : k \in 0..n }

Diffs == SeqsUpTo(Files, MaxFiles)

P_fooTest == <<"s","r","c","/","F","O","O","_","T","E","S","T",".","p","y">>

P_testsFoo == <<"t","e","s","t","s","/","f","o","o","_","t","e","s","t",".","p","y">>

P_jestX == <<"_","_","t","e","s","t","s","_","_","/","x",".","j","s">>

P_WidgetTest == <<"s","r","c","/","W","i","d","g","e","t",".","t","e","s","t",".","t","s">>

P_hiddenTests == <<".","c","i","/","t","e","s","t","s","/","r","u","n",".","p","y">>

P_Makefile == <<"M","a","k","e","f","i","l","e">>

P_appConfig == <<"s","r","c","/","a","p","p",".","c","o","n","f","i","g",".","p","y">>

P_dts == <<"s","r","c","/","t","y","p","e","s",".","d",".","t","s">>

P_widget == <<"s","r","c","/","w","i","d","g","e","t",".","t","s">>

P_widgetTest == <<"t","e","s","t","s","/","w","i","d","g","e","t",".","t","e","s","t",".","t","s">>

P_views == <<"a","p","p","/","v","i","e","w","s",".","p","y">>

P_testsPy == <<"t","e","s","t","s","/","t","e","s","t","s",".","p","y">>

P_appA == <<"s","r","c","/","a","p","p","/","a",".","t","s">>

P_appAbSpec == <<"s","r","c","/","a","p","p","/","a","b",".","s","p","e","c",".","t","s">>

P_empty == <<>>

\* the paths the test analysis is exercised on; <<>> is a file without "to"
AnalysisPaths ==
  { P_util, P_utilTest, P_contest, P_empty, P_fooTest, P_testsFoo, P_jestX, P_WidgetTest, P_hiddenTests,
    P_Makefile, P_appConfig, P_dts, P_widget, P_widgetTest,
    P_views, P_testsPy, P_appA, P_appAbSpec }

AnalysisFiles == { [ to |-> p, chunks |-> 1 ] : p \in AnalysisPaths }

AnalysisDiffs == SeqsUpTo(AnalysisFiles, MaxAnalysisFiles)

D_plain == <<"f","i","x"," ","p","a","r","s","e","r">>

D_exempt == <<"D","o","c","s"," ","o","n","l","y",","," ","S","k","i","p"," ","T","e","s","t","s">>

Descriptions == { D_plain, D_exempt }

B_command == <<" ","/","c","o","d","e","_","r","e","v","i","e","w"," ","n","o","w">>

B_chat == <<"l","g","t","m">>

\* event payloads: hasComment tells whether eventData.comment exists, comment
\* is its body, issuePR is eventData.issue?.pull_request, pull_request is
\* eventData.pull_request
Events == {
  [ hasComment |-> FALSE, comment |-> <<>>, issuePR |-> FALSE, pull_request |-> TRUE,  action |-> "opened" ],
  [ hasComment |-> FALSE, comment |-> <<>>, issuePR |-> FALSE, pull_request |-> TRUE,  action |-> "closed" ],
  [ hasComment |-> FALSE, comment |-> <<>>, issuePR |-> FALSE, pull_request |-> FALSE, action |-> "push" ],
  [ hasComment |-> TRUE, comment |-> B_command, issuePR |-> TRUE,  pull_request |-> FALSE, action |-> "created" ],
  [ hasComment |-> TRUE, comment |-> B_command, issuePR |-> FALSE, pull_request |-> FALSE, action |-> "created" ],
  [ hasComment |-> TRUE, comment |-> B_chat, issuePR |-> TRUE,  pull_request |-> FALSE, action |-> "created" ] }

B_bare == <<"/","c","o","d","e","_","r","e","v","i","e","w">>

B_padded == <<"\n"," ","/","c","o","d","e","_","r","e","v","i","e","w","\t">>

B_inside == <<"p","l","s"," ","/","c","o","d","e","_","r","e","v","i","e","w">>

B_upper == <<"/","C","o","d","e","_","R","e","v","i","e","w">>

B_short == <<" ","/","c","o","d","e","_","r","e","v">>

CommentBodies == { <<>>, B_command, B_chat, B_bare, B_padded, B_inside, B_upper, B_short }

PRActions == { "opened", "reopened", "synchronize", "closed", "edited", "labeled" }

\* the payloads of the two triggers of the workflow (issue_comment and
\* pull_request) and of events that carry neither a comment nor a PR
GateEvents ==
  { [ hasComment |-> TRUE, comment |-> b, issuePR |-> i, pull_request |-> FALSE,
      action |-> "created" ] : b \in CommentBodies, i \in BOOLEAN }
  \cup { [ hasComment |-> FALSE, comment |-> <<>>, issuePR |-> FALSE,
           pull_request |-> p, action |-> a ] : p \in BOOLEAN, a \in PRActions }

\* descriptions: a phrase (a keyword as listed, in another letter case, or a
\* near miss) between a prefix and a suffix
DescriptionPhrases ==
  { <<"n","o"," ","t","e","s","t","s"," ","n","e","e","d","e","d">>,
    <<"t","e","s","t"," ","e","x","e","m","p","t">>,
    <<"s","k","i","p"," ","t","e","s","t","s">>,
    <<"s","e","m"," ","n","e","c","e","s","s","i","d","a","d","e"," ","d","e"," ","t","e","s","t","e">>,
    <<"n","a~","o"," ","r","e","q","u","e","r"," ","t","e","s","t","e">>,
    <<"N","o"," ","T","e","s","t","s"," ","N","e","e","d","e","d">>,
    <<"T","E","S","T"," ","E","X","E","M","P","T">>,
    <<"S","K","I","P"," ","T","E","S","T","S">>,
    <<"N","A~","O"," ","R","E","Q","U","E","R"," ","T","E","S","T","E">>,
    <<"s","k","i","p"," "," ","t","e","s","t","s">>,
    <<"s","k","i","p"," ","t","e","s","t">>,
    <<"t","e","s","t","s"," ","n","e","e","d","e","d">>,
    <<"n","a","o"," ","r","e","q","u","e","r"," ","t","e","s","t","e">>,
    <<>> }

DescriptionPrefixes == { <<>>, <<"D","o","c","s",":"," ">>, <<"x">> }

DescriptionSuffixes == { <<>>, <<".">>, <<" ","o","k">> }

ExemptionDescriptions ==
  { a \o m \o z : a \in DescriptionPrefixes, m \in DescriptionPhrases,
                  z \in DescriptionSuffixes }

X_none == <<>>

X_docs == <<"y","a","r","n",".","l","o","c","k",","," ","*","*","/","*",".","m","d">>

ExcludeInputs == { X_none, X_docs }

WebhookUrls == { "", "not a url", "https://hooks.example/t" }

\* the (lineNumber, reviewComment) pairs an AI answer can carry
ReviewPool == { [ lineNumber |-> <<"1","2">>, reviewComment |-> "c1" ] }

\* what a call of provider.processReason(prompt, true) can come to:
\* the call raises, or it returns text that is not JSON, or JSON whose
\* "reviews" is missing, or is a value that is not an array, or is an array
AIReviewAnswers ==
  { [ kind |-> k, reviews |-> <<>> ] :
      k \in { "raise", "notJSON", "noReviews", "notArray" } }
  \cup { [ kind |-> "array", reviews |-> r ] : r \in SeqsUpTo(ReviewPool, MaxReviews) }

\* two pairs that differ in every field, and the reviews arrays that tell
\* the order of their elements
R_first == [ lineNumber |-> <<"1","2">>, reviewComment |-> "c1" ]

R_second == [ lineNumber |-> <<"7">>, reviewComment |-> "c2" ]

OrderedReviews == { << R_first >>, << R_first, R_second >>, << R_second, R_first >> }

\* the answers of provider.processReason(prompt, true) with these arrays
OrderedAnswers ==
  { [ kind |-> k, reviews |-> <<>> ] : k \in { "raise", "noReviews", "notArray" } }
  \cup { [ kind |-> "array", reviews |-> r ] : r \in OrderedReviews }

R_text == <<" ","o","k"," ">>

\* what provider.processReason(prompt) returns for the exemption reason
ReasonTexts == { <<>>, <<" ">>, R_text }

FALLBACK_REASON == <<"fallback">>

NoAnalysis == [ hasTests |-> FALSE, missingTests |-> <<>>, affectedFiles |-> <<>> ]

NoExemption == [ isExempt |-> FALSE, reason |-> <<>> ]


\* ------------------------------------------------------------------------
\* State of one run of main()
\* ------------------------------------------------------------------------
VARIABLES
  pc,                    \* position of main()
  AVALIAR_TEST_PR,       \* action inputs, read when the module loads
  WEBHOOK_URL,
  API_KEY,
  eventData,             \* the event payload main() reads
  description,           \* prDetails.description
  diffFound,             \* getDiff returned a non-empty diff
  parsedDiff,
  testAnalysis,
  testExemptionDetails,
  hasIssues,
  excludeInput,          \* core.getInput("exclude"), read before the review
  filteredDiff,          \* the files left by the exclude patterns
  hunk,                  \* analyzeCode: number of hunks already reviewed
  comments,              \* analyzeCode: comments collected so far
  reviewPhase,           \* "no", "running" or "returned" (analyzeCode)
  calls,                 \* external calls made so far, in order
  error                  \* what made main() throw, "" if nothing

vars == << pc, AVALIAR_TEST_PR, WEBHOOK_URL, API_KEY, eventData,
           description, diffFound, parsedDiff, testAnalysis,
           testExemptionDetails, hasIssues, excludeInput, filteredDiff, hunk,
           comments, reviewPhase, calls, error >>

config == << AVALIAR_TEST_PR, WEBHOOK_URL, API_KEY >>

review == << excludeInput, filteredDiff, hunk, comments, reviewPhase >>

NoEvent == [ hasComment |-> FALSE, comment |-> <<>>, issuePR |-> FALSE, pull_request |-> FALSE,
             action |-> "" ]

\* one external call: api names the service, ok its outcome, event / body /
\* list the arguments that matter (list: review comments, or the files of
\* a warning or of a webhook payload)
Call(api, ok, event, body, list) ==
  [ api |-> api, ok |-> ok, event |-> event, body |-> body, list |-> list ]

Init ==
  /\ pc = "start"
  /\ AVALIAR_TEST_PR \in BOOLEAN
  /\ WEBHOOK_URL \in WebhookUrls
  /\ API_KEY \in BOOLEAN
  /\ eventData = NoEvent
  /\ description = <<>>
  /\ diffFound = FALSE
  /\ parsedDiff = <<>>
  /\ testAnalysis = NoAnalysis
  /\ testExemptionDetails = NoExemption
  /\ hasIssues = FALSE
  /\ excludeInput = <<>>
  /\ filteredDiff = <<>>
  /\ hunk = 0
  /\ comments = <<>>
  /\ reviewPhase = "no"
  /\ calls = <<>>
  /\ error = ""

\* ------------------------------------------------------------------------
\* Event gate
\* ------------------------------------------------------------------------
\* isCodeReviewCommand without the trim
isCodeReviewCommand_noTrim(comment) ==
  startsWith(comment, <<"/","c","o","d","e","_","r","e","v","i","e","w">>)

isCodeReviewCommand(comment) ==
  startsWith(trim(comment), <<"/","c","o","d","e","_","r","e","v","i","e","w">>)

\* the gate letting every event through
shouldProcessPR_always(ev) == TRUE

shouldProcessPR(ev) ==
  IF ev.hasComment
  THEN ev.issuePR /\ isCodeReviewCommand(ev.comment)
  ELSE ev.pull_request /\ ev.action \in { "opened", "reopened", "synchronize" }

ReadEvent ==
  /\ pc = "start"
  /\ \E ev \in Events :
       /\ eventData' = ev
       /\ pc' = IF shouldProcessPR(ev) THEN "getPRDetails" ELSE "done"
  /\ UNCHANGED << config, description, diffFound, parsedDiff, testAnalysis,
                  testExemptionDetails, hasIssues, review, calls, error >>

\* the gate of main() on every payload of GateEvents
Gate ==
  /\ pc = "start"
  /\ \E ev \in GateEvents :
       /\ eventData' = ev
       /\ pc' = IF shouldProcessPR(ev) THEN "getPRDetails" ELSE "done"
  /\ UNCHANGED << config, description, diffFound, parsedDiff, testAnalysis,
                  testExemptionDetails, hasIssues, review, calls, error >>

GateSpec == Init /\ [][Gate]_vars

\* getPRDetails: octokit.pulls.get, then octokit.users.getByUsername
GetPRDetails ==
  /\ pc = "getPRDetails"
  /\ \/ /\ \E d \in Descriptions : description' = d
        /\ calls' = calls \o << Call("pulls.get", TRUE, "", <<>>, <<>>),
                                Call("users.getByUsername", TRUE, "", <<>>, <<>>) >>
        /\ pc' = "getDiff"
        /\ error' = error
     \/ /\ calls' = Append(calls, Call("pulls.get", FALSE, "", <<>>, <<>>))
        /\ pc' = "failed"
        /\ error' = "platform"
        /\ UNCHANGED description
     \/ /\ calls' = calls \o << Call("pulls.get", TRUE, "", <<>>, <<>>),
                                Call("users.getByUsername", FALSE, "", <<>>, <<>>) >>
        /\ pc' = "failed"
        /\ error' = "platform"
        /\ UNCHANGED description
  /\ UNCHANGED << config, eventData, diffFound, parsedDiff, testAnalysis,
                  testExemptionDetails, hasIssues, review >>

\* getDiff, the "No diff found" return, parseDiff and analyzeTests
GetDiff ==
  /\ pc = "getDiff"
  /\ \/ /\ calls' = Append(calls, Call("pulls.get.diff", FALSE, "", <<>>, <<>>))
        /\ pc' = "failed"
        /\ error' = "platform"
        /\ UNCHANGED << diffFound, parsedDiff, testAnalysis >>
     \/ /\ calls' = Append(calls, Call("pulls.get.diff", TRUE, "", <<>>, <<>>))
        /\ pc' = "done"
        /\ UNCHANGED << diffFound, parsedDiff, testAnalysis, error >>
     \/ /\ calls' = Append(calls, Call("pulls.get.diff", TRUE, "", <<>>, <<>>))
        /\ \E d \in Diffs :
             /\ parsedDiff' = d
             /\ testAnalysis' = analyzeTests(d)
        /\ diffFound' = TRUE
        /\ pc' = "exemption"
        /\ error' = error
  /\ UNCHANGED << config, eventData, description, testExemptionDetails,
                  hasIssues, review >>


\* parseDiff and analyzeTests of main() on every diff of AnalysisDiffs
Analyze ==
  /\ pc = "start"
  /\ \E d \in AnalysisDiffs :
       /\ parsedDiff' = d
       /\ testAnalysis' = analyzeTests(d)
  /\ diffFound' = TRUE
  /\ pc' = "exemption"
  /\ UNCHANGED << config, eventData, description, testExemptionDetails,
                  hasIssues, review, calls, error >>

\* the analysis does not read the action inputs: one setting of them
AnalysisInit ==
  /\ Init
  /\ ~AVALIAR_TEST_PR
  /\ WEBHOOK_URL = ""
  /\ ~API_KEY

AnalysisSpec == AnalysisInit /\ [][Analyze]_vars

\* ------------------------------------------------------------------------
\* Exemption detection
\* ------------------------------------------------------------------------
ReasonAnswers ==
  { [ kind |-> "raise", text |-> <<>> ] }
  \cup { [ kind |-> "text", text |-> r ] : r \in ReasonTexts }

\* extractTestExemptionReason once the provider has answered; <<>> is null
extractTestExemptionReason(answer) ==
  IF answer.kind = "raise" THEN <<>>
  ELSE IF answer.text = <<>> THEN <<>>
  ELSE trim(answer.text)

\* getTestExemptionDetails with the exemption granted only when the AI
\* backend gave a reason
getTestExemptionDetails_reasonDecides(desc, answer) ==
  LET detailedReason == extractTestExemptionReason(answer)
  IN IF hasTestExemption(desc) /\ detailedReason # <<>>
     THEN [ isExempt |-> TRUE, reason |-> detailedReason ]
     ELSE [ isExempt |-> FALSE, reason |-> <<>> ]

\* getTestExemptionDetails; answer is unused when the description has no
\* keyword
getTestExemptionDetails(desc, answer) ==
  LET isExempt == hasTestExemption(desc)
      detailedReason == extractTestExemptionReason(answer)
  IN IF ~isExempt THEN [ isExempt |-> FALSE, reason |-> <<>> ]
     ELSE [ isExempt |-> TRUE,
            reason |-> IF detailedReason # <<>> THEN detailedReason
                       ELSE FALLBACK_REASON ]

\* the condition of the warning block without its test on hasTests
warningCondition_ignoreHasTests(analysis, exemption) ==
  /\ Len(analysis.affectedFiles) > 0
  /\ ~exemption.isExempt

\* the condition of main() that guards the warning block
warningCondition(analysis, exemption) ==
  /\ Len(analysis.affectedFiles) > 0
  /\ ~analysis.hasTests
  /\ ~exemption.isExempt

GetTestExemptionDetails ==
  /\ pc = "exemption"
  /\ \E answer \in ReasonAnswers :
       /\ ~(hasTestExemption(description) /\ API_KEY)
            => answer = [ kind |-> "raise", text |-> <<>> ]
       /\ testExemptionDetails' = getTestExemptionDetails(description, answer)
       /\ calls' = IF hasTestExemption(description) /\ API_KEY
                   THEN Append(calls, Call("ai.reason", answer.kind # "raise", "",
                                           answer.text, <<>>))
                   ELSE calls
  /\ pc' = IF warningCondition(testAnalysis, testExemptionDetails')
           THEN "warn" ELSE "codeReview"
  /\ UNCHANGED << config, eventData, description, diffFound, parsedDiff,
                  testAnalysis, hasIssues, review, error >>

\* getTestExemptionDetails of main() on every description of
\* ExemptionDescriptions, the provider being unavailable (no API key)
DetectExemption ==
  /\ pc = "start"
  /\ \E d \in ExemptionDescriptions :
       /\ description' = d
       /\ testExemptionDetails' =
            getTestExemptionDetails(d, [ kind |-> "raise", text |-> <<>> ])
  /\ pc' = "done"
  /\ UNCHANGED << config, eventData, diffFound, parsedDiff, testAnalysis,
                  hasIssues, review, calls, error >>

ExemptionSpec == AnalysisInit /\ [][DetectExemption]_vars

\* ------------------------------------------------------------------------
\* Warning comment and webhook
\* ------------------------------------------------------------------------
\* the warning block without its early return
afterWarning_noReturn == "codeReview"

\* where main() goes after the warning block: "if (AVALIAR_TEST_PR) return"
afterWarning == IF AVALIAR_TEST_PR THEN "done" ELSE "codeReview"

\* the warning block with a failure of createComment swallowed
PostWarning_swallowFailure ==
  /\ pc = "warn"
  /\ hasIssues' = TRUE
  /\ \E ok \in BOOLEAN :
       calls' = Append(calls, Call("issues.createComment", ok, "",
                                   <<"warning">>, testAnalysis.missingTests))
  /\ pc' = IF WEBHOOK_URL # "" THEN "webhook" ELSE afterWarning
  /\ UNCHANGED << config, eventData, description, diffFound, parsedDiff,
                  testAnalysis, testExemptionDetails, review, error >>

PostWarning ==
  /\ pc = "warn"
  /\ hasIssues' = TRUE
  /\ \/ /\ calls' = Append(calls, Call("issues.createComment", TRUE, "",
                                       <<"warning">>, testAnalysis.missingTests))
        /\ pc' = IF WEBHOOK_URL # "" THEN "webhook" ELSE afterWarning
        /\ error' = error
     \/ /\ calls' = Append(calls, Call("issues.createComment", FALSE, "",
                                       <<"warning">>, testAnalysis.missingTests))
        /\ pc' = "failed"
        /\ error' = "platform"
  /\ UNCHANGED << config, eventData, description, diffFound, parsedDiff,
                  testAnalysis, testExemptionDetails, review >>

\* new URL(WEBHOOK_URL) of sendWebhook
validUrl(u) == u = "https://hooks.example/t"

webhookPayload ==
  [ missing_tests |-> testAnalysis.missingTests,
    affected_files |-> testAnalysis.affectedFiles,
    has_tests |-> testAnalysis.hasTests,
    is_exempt |-> testExemptionDetails.isExempt,
    reason |-> testExemptionDetails.reason,
    needs_tests |-> Len(testAnalysis.affectedFiles) > 0 /\ ~testAnalysis.hasTests ]

\* sendWebhook inside the try/catch of main(): an invalid URL and a request
\* error reject the promise, which main() catches; when the endpoint answers,
\* the promise is resolved only by the "end" event of a response whose body
\* nobody reads, an event Node never emits for an unread response: the
\* await never returns
SendWebhook ==
  /\ pc = "webhook"
  /\ \/ /\ ~validUrl(WEBHOOK_URL)
        /\ calls' = Append(calls, Call("webhook", FALSE, "invalidUrl",
                                       webhookPayload, <<>>))
        /\ pc' = afterWarning
     \/ /\ validUrl(WEBHOOK_URL)
        /\ calls' = Append(calls, Call("webhook", FALSE, "requestError",
                                       webhookPayload, <<>>))
        /\ pc' = afterWarning
     \/ /\ validUrl(WEBHOOK_URL)
        /\ calls' = Append(calls, Call("webhook", TRUE, "answered",
                                       webhookPayload, <<>>))
        /\ pc' = "hung"
  /\ UNCHANGED << config, eventData, description, diffFound, parsedDiff,
                  testAnalysis, testExemptionDetails, hasIssues, review, error >>


\* ------------------------------------------------------------------------
\* AI review phase
\* ------------------------------------------------------------------------
\* core.getInput("exclude").split(",").map(s => s.trim())
excludeList(input) ==
  LET parts == split(input, ",")
  IN [ i \in 1..Len(parts) |-> trim(parts[i]) ]

isExcluded(file, input) ==
  LET patterns == excludeList(input)
  IN \E k \in 1..Len(patterns) : minimatch(file.to, patterns[k])

\* parsedDiff.filter(...) of main()
filterDiff(files, input) ==
  LET notExcluded(file) == ~isExcluded(file, input)
  IN SelectSeq(files, notExcluded)

\* the (file, chunk) pairs in the order the loops of analyzeCode visit them;
\* deleted files are skipped
RECURSIVE hunksOf(_)
hunksOf(files) ==
  IF files = <<>> THEN <<>>
  ELSE LET file == Head(files)
       IN (IF file.to = P_devNull THEN <<>>
           ELSE [ c \in 1..file.chunks |-> [ file |-> file, chunk |-> c ] ])
          \o hunksOf(Tail(files))

\* getAIResponse: threw tells whether it throws (it rethrows what it caught),
\* shape what it returns as "reviews" ("undefined", "notArray" or "array")
\* and value the array
getAIResponse(answer) ==
  IF answer.kind \in { "raise", "notJSON" }
  THEN [ threw |-> TRUE, shape |-> "undefined", value |-> <<>> ]
  ELSE IF answer.kind = "array"
       THEN [ threw |-> FALSE, shape |-> "array", value |-> answer.reviews ]
       ELSE [ threw |-> FALSE,
              shape |-> IF answer.kind = "noReviews" THEN "undefined" ELSE "notArray",
              value |-> <<>> ]

\* createComment listing the pairs of an answer last to first
createComment_reversed(file, aiResponses) ==
  IF file.to = <<>> THEN <<>>
  ELSE [ i \in 1..Len(aiResponses) |->
           [ body |-> aiResponses[Len(aiResponses) + 1 - i].reviewComment,
             path |-> file.to,
             line |-> Number(aiResponses[Len(aiResponses) + 1 - i].lineNumber) ] ]

\* createComment for an array of AI reviews
createComment(file, aiResponses) ==
  IF file.to = <<>> THEN <<>>
  ELSE [ i \in 1..Len(aiResponses) |->
           [ body |-> aiResponses[i].reviewComment,
             path |-> file.to,
             line |-> Number(aiResponses[i].lineNumber) ] ]

\* the review phase entered whatever AVALIAR_TEST_PR is
EnterCodeReview_always ==
  /\ pc = "codeReview"
  /\ \E input \in ExcludeInputs :
       /\ excludeInput' = input
       /\ filteredDiff' = filterDiff(parsedDiff, input)
  /\ pc' = "review"
  /\ reviewPhase' = "running"
  /\ UNCHANGED << config, eventData, description, diffFound, parsedDiff,
                  testAnalysis, testExemptionDetails, hasIssues, hunk,
                  comments, calls, error >>

\* the review phase with the test analysis redone on the filtered diff
EnterCodeReview_reanalyze ==
  /\ pc = "codeReview"
  /\ IF AVALIAR_TEST_PR
     THEN /\ pc' = IF hasIssues THEN "done" ELSE "approve"
          /\ UNCHANGED << reviewPhase, excludeInput, filteredDiff, testAnalysis >>
     ELSE /\ \E input \in ExcludeInputs :
               /\ excludeInput' = input
               /\ filteredDiff' = filterDiff(parsedDiff, input)
               /\ testAnalysis' = analyzeTests(filterDiff(parsedDiff, input))
          /\ pc' = "review"
          /\ reviewPhase' = "running"
  /\ UNCHANGED << config, eventData, description, diffFound, parsedDiff,
                  testExemptionDetails, hasIssues, hunk, comments, calls, error >>

\* the flag ending the run where the review phase is skipped
EnterCodeReview_flagReturns ==
  /\ pc = "codeReview"
  /\ IF AVALIAR_TEST_PR
     THEN /\ pc' = "done"
          /\ UNCHANGED << reviewPhase, excludeInput, filteredDiff >>
     ELSE /\ \E input \in ExcludeInputs :
               /\ excludeInput' = input
               /\ filteredDiff' = filterDiff(parsedDiff, input)
          /\ pc' = "review"
          /\ reviewPhase' = "running"
  /\ UNCHANGED << config, eventData, description, diffFound, parsedDiff,
                  testAnalysis, testExemptionDetails, hasIssues, hunk,
                  comments, calls, error >>

\* "if (!AVALIAR_TEST_PR)" and, when the phase is skipped, "if (!hasIssues)"
EnterCodeReview ==
  /\ pc = "codeReview"
  /\ IF AVALIAR_TEST_PR
     THEN /\ pc' = IF hasIssues THEN "done" ELSE "approve"
          /\ UNCHANGED << reviewPhase, excludeInput, filteredDiff >>
     ELSE /\ \E input \in ExcludeInputs :
               /\ excludeInput' = input
               /\ filteredDiff' = filterDiff(parsedDiff, input)
          /\ pc' = "review"
          /\ reviewPhase' = "running"
  /\ UNCHANGED << config, eventData, description, diffFound, parsedDiff,
                  testAnalysis, testExemptionDetails, hasIssues, hunk,
                  comments, calls, error >>

\* one iteration of the loops of analyzeCode: one hunk, one AI call, whose
\* answer is one of answers
SubmitHunk(answers) ==
  /\ pc = "review"
  /\ hunk < Len(hunksOf(filteredDiff))
  /\ LET h == hunksOf(filteredDiff)[hunk + 1]
     IN IF ~API_KEY
        THEN \* getAIProvider throws "API_KEY is required"
             /\ pc' = "failed"
             /\ error' = "config"
             /\ UNCHANGED << hunk, comments, calls >>
        ELSE \E answer \in answers :
               LET r == getAIResponse(answer)
               IN /\ calls' = Append(calls, Call("ai.review", answer.kind # "raise",
                                                 "", h.file.to, r.value))
                  /\ IF r.threw
                     THEN /\ pc' = "failed"
                          /\ error' = "ai"
                          /\ UNCHANGED << hunk, comments >>
                     ELSE IF r.shape = "undefined"
                     THEN /\ hunk' = hunk + 1
                          /\ UNCHANGED << pc, comments, error >>
                     ELSE IF r.shape = "notArray"
                     THEN \* aiResponses.flatMap is not a function
                          /\ pc' = "failed"
                          /\ error' = "ai"
                          /\ UNCHANGED << hunk, comments >>
                     ELSE /\ comments' = comments \o createComment(h.file, r.value)
                          /\ hunk' = hunk + 1
                          /\ UNCHANGED << pc, error >>
  /\ UNCHANGED << config, eventData, description, diffFound, parsedDiff,
                  testAnalysis, testExemptionDetails, hasIssues, reviewPhase,
                  excludeInput, filteredDiff >>

ReviewHunk == SubmitHunk(AIReviewAnswers)

\* the exclude filter of main() on every diff of Diffs, in a run that posted
\* no warning: the state in which analyzeCode is called
StartReview ==
  /\ pc = "start"
  /\ \E d \in Diffs, input \in ExcludeInputs :
       /\ parsedDiff' = d
       /\ excludeInput' = input
       /\ filteredDiff' = filterDiff(d, input)
  /\ diffFound' = TRUE
  /\ reviewPhase' = "running"
  /\ pc' = "review"
  /\ UNCHANGED << config, eventData, description, testAnalysis,
                  testExemptionDetails, hasIssues, hunk, comments, calls, error >>

\* analyzeCode with the answers of OrderedAnswers
ReviewOrderedHunk == SubmitHunk(OrderedAnswers)

\* the review phase runs when AVALIAR_TEST_PR is unset and does not read
\* WEBHOOK_URL
ReviewInit ==
  /\ Init
  /\ ~AVALIAR_TEST_PR
  /\ WEBHOOK_URL = ""

\* the end of the review phase with the approval not guarded by hasIssues
FinishReview_approveAnyway ==
  /\ pc = "review"
  /\ hunk = Len(hunksOf(filteredDiff))
  /\ reviewPhase' = "returned"
  /\ IF Len(comments) > 0
     THEN /\ hasIssues' = TRUE
          /\ \/ /\ calls' = Append(calls, Call("pulls.createReview", TRUE,
                                               "COMMENT", <<>>, comments))
                /\ pc' = "done"
                /\ error' = error
             \/ /\ calls' = Append(calls, Call("pulls.createReview", FALSE,
                                               "COMMENT", <<>>, comments))
                /\ pc' = "failed"
                /\ error' = "platform"
     ELSE /\ pc' = "approve"
          /\ UNCHANGED << hasIssues, calls, error >>
  /\ UNCHANGED << config, eventData, description, diffFound, parsedDiff,
                  testAnalysis, testExemptionDetails, excludeInput,
                  filteredDiff, hunk, comments >>

\* the end of the review phase with hasIssues not set by the COMMENT review
FinishReview_commentThenApprove ==
  /\ pc = "review"
  /\ hunk = Len(hunksOf(filteredDiff))
  /\ reviewPhase' = "returned"
  /\ IF Len(comments) > 0
     THEN /\ \/ /\ calls' = Append(calls, Call("pulls.createReview", TRUE,
                                               "COMMENT", <<>>, comments))
                /\ pc' = IF hasIssues THEN "done" ELSE "approve"
                /\ error' = error
             \/ /\ calls' = Append(calls, Call("pulls.createReview", FALSE,
                                               "COMMENT", <<>>, comments))
                /\ pc' = "failed"
                /\ error' = "platform"
          /\ UNCHANGED hasIssues
     ELSE /\ pc' = IF hasIssues THEN "done" ELSE "approve"
          /\ UNCHANGED << hasIssues, calls, error >>
  /\ UNCHANGED << config, eventData, description, diffFound, parsedDiff,
                  testAnalysis, testExemptionDetails, excludeInput,
                  filteredDiff, hunk, comments >>

\* the end of the review phase posting only the first collected comment
FinishReview_firstCommentOnly ==
  /\ pc = "review"
  /\ hunk = Len(hunksOf(filteredDiff))
  /\ reviewPhase' = "returned"
  /\ IF Len(comments) > 0
     THEN /\ hasIssues' = TRUE
          /\ \/ /\ calls' = Append(calls, Call("pulls.createReview", TRUE,
                                               "COMMENT", <<>>, <<comments[1]>>))
                /\ pc' = "done"
                /\ error' = error
             \/ /\ calls' = Append(calls, Call("pulls.createReview", FALSE,
                                               "COMMENT", <<>>, <<comments[1]>>))
                /\ pc' = "failed"
                /\ error' = "platform"
     ELSE /\ pc' = IF hasIssues THEN "done" ELSE "approve"
          /\ UNCHANGED << hasIssues, calls, error >>
  /\ UNCHANGED << config, eventData, description, diffFound, parsedDiff,
                  testAnalysis, testExemptionDetails, excludeInput,
                  filteredDiff, hunk, comments >>

\* analyzeCode returns; the COMMENT review when there are comments
FinishReview ==
  /\ pc = "review"
  /\ hunk = Len(hunksOf(filteredDiff))
  /\ reviewPhase' = "returned"
  /\ IF Len(comments) > 0
     THEN /\ hasIssues' = TRUE
          /\ \/ /\ calls' = Append(calls, Call("pulls.createReview", TRUE,
                                               "COMMENT", <<>>, comments))
                /\ pc' = "done"
                /\ error' = error
             \/ /\ calls' = Append(calls, Call("pulls.createReview", FALSE,
                                               "COMMENT", <<>>, comments))
                /\ pc' = "failed"
                /\ error' = "platform"
     ELSE /\ pc' = IF hasIssues THEN "done" ELSE "approve"
          /\ UNCHANGED << hasIssues, calls, error >>
  /\ UNCHANGED << config, eventData, description, diffFound, parsedDiff,
                  testAnalysis, testExemptionDetails, excludeInput,
                  filteredDiff, hunk, comments >>

ReviewNext ==
  \/ StartReview
  \/ ReviewOrderedHunk
  \/ FinishReview

ReviewSpec == ReviewInit /\ [][ReviewNext]_vars

\* ------------------------------------------------------------------------
\* Approval
\* ------------------------------------------------------------------------
LGTM_PLAIN == <<"LGTM - Looks Good To Me!">>

LGTM_EXEMPT == <<"LGTM - Aprovado com excecoes.">>

\* the approval body chosen on the exemption alone
approvalBody_exemptOnly ==
  IF testExemptionDetails.isExempt
  THEN LGTM_EXEMPT \o testExemptionDetails.reason
  ELSE LGTM_PLAIN

approvalBody ==
  IF /\ Len(testAnalysis.affectedFiles) > 0
     /\ ~testAnalysis.hasTests
     /\ testExemptionDetails.isExempt
  THEN LGTM_EXEMPT \o testExemptionDetails.reason
  ELSE LGTM_PLAIN

Approve ==
  /\ pc = "approve"
  /\ \/ /\ calls' = Append(calls, Call("pulls.createReview", TRUE, "APPROVE",
                                       approvalBody, <<>>))
        /\ pc' = "done"
        /\ error' = error
     \/ /\ calls' = Append(calls, Call("pulls.createReview", FALSE, "APPROVE",
                                       approvalBody, <<>>))
        /\ pc' = "failed"
        /\ error' = "platform"
  /\ UNCHANGED << config, eventData, description, diffFound, parsedDiff,
                  testAnalysis, testExemptionDetails, hasIssues, review >>

Next ==
  \/ ReadEvent
  \/ GetPRDetails
  \/ GetDiff
  \/ GetTestExemptionDetails
  \/ PostWarning
  \/ SendWebhook
  \/ EnterCodeReview
  \/ ReviewHunk
  \/ FinishReview
  \/ Approve

Spec == Init /\ [][Next]_vars

\* a run whose steps are always taken: every awaited service answers (with
\* success or with an error) and the event loop runs every continuation that
\* is ready
FairSpec == Spec /\ WF_vars(Next)


\* ------------------------------------------------------------------------
\* Vocabulary of the properties
\* ------------------------------------------------------------------------
CallsTo(api) == { i \in DOMAIN calls : calls[i].api = api }

\* the latest call: the call of the step that led to the state, if it made one
LastCall == calls[Len(calls)]

Warnings == CallsTo("issues.createComment")

Webhooks == CallsTo("webhook")

Reviews == CallsTo("pulls.createReview")

AIReviewCalls == CallsTo("ai.review")

AICalls == AIReviewCalls \cup CallsTo("ai.reason")

ReviewsWith(event) == { i \in Reviews : calls[i].event = event }

\* the three conditions of the warning, stated on the inputs of the run
SomeFileNeedsTests == \E i \in DOMAIN parsedDiff : isAffectedFile(parsedDiff[i])

SomeTestFileInDiff == \E i \in DOMAIN parsedDiff : isTestFile(parsedDiff[i])

DescriptionExempt == hasTestExemption(description)

\* main() is past the warning block (the warning call, if any, is made)
PastWarningBlock == diffFound /\ pc \notin { "exemption", "warn" }

\* main() has returned or thrown
Ended == pc \in { "done", "failed" }

RECURSIVE SumLen(_)
SumLen(idx) ==
  IF idx = {} THEN 0
  ELSE LET i == CHOOSE k \in idx : TRUE
       IN Len(calls[i].list) + SumLen(idx \ {i})


\* ------------------------------------------------------------------------
\* Properties
\* ------------------------------------------------------------------------

\* C1: in a run that passed the gate and obtained a diff, the warning
\* comment call is made (at most once) if and only if some changed file needs
\* tests, hasTests is false and the description carries no exemption keyword,
\* where hasTests, as analyzeTests leaves it, is true as soon as any changed
\* file is recognised as a test file; so no warning is made when a file misses
\* its test but some unrelated test file is in the diff.
C1_WarningIff ==
  /\ Cardinality(Warnings) <= 1
  /\ Warnings # {} => diffFound
  /\ pc \in { "exemption", "warn" } =>
       /\ testAnalysis.hasTests <=> SomeTestFileInDiff
       /\ Len(testAnalysis.affectedFiles) > 0 <=> SomeFileNeedsTests
  /\ PastWarningBlock =>
       ( Warnings # {} <=>
           /\ Len(testAnalysis.affectedFiles) > 0
           /\ ~testAnalysis.hasTests
           /\ ~testExemptionDetails.isExempt )
  /\ pc \in { "warn", "codeReview" } =>
       ( testExemptionDetails.isExempt <=> DescriptionExempt )
  /\ ( /\ pc = "warn"
       /\ Len(testAnalysis.missingTests) > 0 ) => ~SomeTestFileInDiff

C1_Witness ==
  /\ pc = "done"
  /\ Len(testAnalysis.missingTests) > 0
  /\ SomeTestFileInDiff
  /\ Warnings = {}
  /\ Reviews # {}

\* C2: when the warning was made and AVALIAR_TEST_PR is set, the run stops
\* after the warning comment and the optional webhook: exactly one issue
\* comment call, no AI backend call anywhere in the run, no review call,
\* and main() is at the webhook, has returned, hangs in the webhook or has
\* thrown, never in the review or approval steps.
C2_WarnAndStop ==
  (AVALIAR_TEST_PR /\ Warnings # {}) =>
     /\ Cardinality(Warnings) = 1
     /\ AICalls = {}
     /\ Reviews = {}
     /\ reviewPhase = "no"
     /\ pc \in { "webhook", "done", "hung", "failed" }
     /\ \A i \in DOMAIN calls :
          i > (CHOOSE w \in Warnings : TRUE) => calls[i].api = "webhook"
     /\ Cardinality(Webhooks) <= 1

C2_Witness ==
  /\ AVALIAR_TEST_PR
  /\ Warnings # {}
  /\ Webhooks # {}
  /\ pc = "done"


\* the diff holds a file needing tests and no file needing tests misses its
\* test file
Covered ==
  /\ diffFound
  /\ Len(testAnalysis.affectedFiles) > 0
  /\ Len(testAnalysis.missingTests) = 0

IsPlainApproval(i) ==
  /\ calls[i].event = "APPROVE"
  /\ calls[i].body = LGTM_PLAIN
  /\ calls[i].list = <<>>

\* C3 as claimed: with AVALIAR_TEST_PR set, a covered PR (no warning) still
\* gets the AI review: one AI review call per hunk is made, and with no
\* comments a single plain APPROVE review follows.
C3_Original ==
  (AVALIAR_TEST_PR /\ Covered /\ pc = "done") =>
     /\ Warnings = {}
     /\ reviewPhase = "returned"
     /\ \E input \in ExcludeInputs :
          Cardinality(AIReviewCalls) = Len(hunksOf(filterDiff(parsedDiff, input)))
     /\ comments = <<>> =>
          (Cardinality(Reviews) = 1 /\ \A i \in Reviews : IsPlainApproval(i))

\* C3 as amended: with AVALIAR_TEST_PR set, a covered PR gets no warning
\* and no AI review call at all (the review phase is skipped); the run makes
\* exactly one review call, an APPROVE with the plain LGTM body and no
\* comments.
C3_CoveredFlagSet ==
  (AVALIAR_TEST_PR /\ Covered) =>
     /\ Warnings = {}
     /\ AIReviewCalls = {}
     /\ reviewPhase = "no"
     /\ Ended => (Cardinality(Reviews) = 1 /\ \A i \in Reviews : IsPlainApproval(i))

C3_Witness ==
  /\ AVALIAR_TEST_PR
  /\ Covered
  /\ pc = "done"
  /\ \E i \in Reviews : IsPlainApproval(i) /\ calls[i].ok
  /\ \A input \in ExcludeInputs : hunksOf(filterDiff(parsedDiff, input)) # <<>>

\* C4: an AI answer that is not JSON, has no array-valued reviews, or a
\* backend call that raises, counts as no comments for the hunk and never
\* makes main() throw: no run ends on an error raised by the AI review.
C4_NoAbortOnAIFailure == error # "ai"

\* C5 as claimed: whenever the review phase returned with zero comments the
\* run makes a single APPROVE review call with no comments, also when the
\* warning was posted before.
C5_Original ==
  (reviewPhase = "returned" /\ comments = <<>> /\ Ended) =>
     /\ Cardinality(Reviews) = 1
     /\ \A i \in Reviews : calls[i].event = "APPROVE" /\ calls[i].list = <<>>

\* C5 as amended: when the review phase returned with zero comments, the run
\* makes a single APPROVE review call (no comments) if no warning comment
\* was made in the run, and no review call at all if the warning was made.
C5_ApproveUnlessWarned ==
  (reviewPhase = "returned" /\ comments = <<>> /\ Ended) =>
     IF Warnings = {}
     THEN /\ Cardinality(Reviews) = 1
          /\ \A i \in Reviews : calls[i].event = "APPROVE" /\ calls[i].list = <<>>
     ELSE Reviews = {}

C5_Witness ==
  /\ reviewPhase = "returned"
  /\ comments = <<>>
  /\ pc = "done"
  /\ Warnings = {}
  /\ AIReviewCalls # {}
  /\ \E i \in Reviews : calls[i].event = "APPROVE" /\ calls[i].ok

StopsAtWarning == AVALIAR_TEST_PR /\ Warnings # {}

ReviewAfterWarningAndWebhook ==
  \A r \in Reviews : \A i \in Warnings \cup Webhooks : i < r

\* C6 as claimed: a run that obtained a diff and does not stop at the warning
\* makes exactly one review call, after its warning and webhook calls.
C6_Original ==
  (pc = "done" /\ diffFound /\ ~StopsAtWarning) =>
     /\ Cardinality(Reviews) = 1
     /\ ReviewAfterWarningAndWebhook

\* C6 as amended: every run makes at most one review call, after its
\* warning and webhook calls; a run that obtained a diff, does not stop at
\* the warning and returns normally makes exactly one, except that it makes
\* none when it made the warning and the review phase produced no comments.
C6_AtMostOneReview ==
  /\ Cardinality(Reviews) <= 1
  /\ ReviewAfterWarningAndWebhook
  /\ (pc = "done" /\ diffFound /\ ~StopsAtWarning) =>
       ( Cardinality(Reviews) = 1 <=> (Warnings = {} \/ Len(comments) > 0) )

C6_Witness ==
  /\ pc = "done"
  /\ Warnings # {}
  /\ Webhooks # {}
  /\ Cardinality(Reviews) = 1

\* C7: when the review phase produced one or more comments, the run makes
\* exactly one review call, a COMMENT carrying all the comments the AI
\* answers produced, and no APPROVE call, also for an exempt description.
C7_CommentsNoApprove ==
  /\ (reviewPhase = "returned" /\ Len(comments) > 0) =>
       /\ Cardinality(Reviews) = 1
       /\ \A i \in Reviews :
            /\ calls[i].event = "COMMENT"
            /\ calls[i].list = comments
            /\ Len(calls[i].list) = SumLen(AIReviewCalls)
  /\ ReviewsWith("APPROVE") # {} => comments = <<>>

C7_Witness ==
  /\ pc = "done"
  /\ reviewPhase = "returned"
  /\ Len(comments) > 1
  /\ DescriptionExempt
  /\ SomeFileNeedsTests
  /\ ~SomeTestFileInDiff
  /\ ReviewsWith("COMMENT") # {}

C9_ApprovalBody ==
  \A i \in ReviewsWith("APPROVE") :
     IF /\ Len(testAnalysis.affectedFiles) > 0
        /\ ~testAnalysis.hasTests
        /\ DescriptionExempt
     THEN /\ calls[i].body = LGTM_EXEMPT \o testExemptionDetails.reason
          /\ testExemptionDetails.reason # <<>>
          /\ SomeFileNeedsTests /\ ~SomeTestFileInDiff
     ELSE /\ calls[i].body = LGTM_PLAIN
          /\ ~SomeFileNeedsTests \/ SomeTestFileInDiff \/ ~DescriptionExempt

C9_Witness ==
  /\ pc = "done"
  /\ \E i \in ReviewsWith("APPROVE") :
       calls[i].body = LGTM_EXEMPT \o trim(R_text)

\* C10: the webhook is sent only after the warning comment succeeded, and
\* whatever the outcome of the delivery (invalid URL, request error, answer)
\* the step leaves main() at the statement that follows the warning block.
C10_WebhookNeverChangesRun ==
  [][ pc = "webhook" =>
        /\ \A w \in Webhooks' : \E c \in Warnings' : c < w /\ calls'[c].ok
        /\ pc' = afterWarning ]_vars


\* C11: isExempt equals the keyword match on the description whatever the AI
\* backend does: without a keyword the result is (FALSE, "") and no AI call
\* is made for the reason; with a keyword isExempt is TRUE and, when the
\* reason call raised, returned empty or blank text, or could not be made
\* for lack of an API key, the reason is the fixed fallback sentence (the
\* answer is examined in the state that follows the reason call).
ReasonCalls == CallsTo("ai.reason")

ExemptionDecided == diffFound /\ pc # "exemption"

C11_ExemptionIsKeywordMatch ==
  /\ pc \in { "warn", "codeReview" } =>
       ( testExemptionDetails.isExempt <=> hasTestExemption(description) )
  /\ ~ExemptionDecided => ReasonCalls = {}
  /\ (ExemptionDecided /\ ~testExemptionDetails.isExempt) =>
       /\ testExemptionDetails.reason = <<>>
       /\ ReasonCalls = {}
  /\ (ExemptionDecided /\ testExemptionDetails.isExempt) =>
       /\ testExemptionDetails.reason # <<>>
       /\ Cardinality(ReasonCalls) = IF API_KEY THEN 1 ELSE 0
       /\ ~API_KEY => testExemptionDetails.reason = FALLBACK_REASON
       /\ LastCall.api = "ai.reason" =>
            IF ~LastCall.ok \/ trim(LastCall.body) = <<>>
            THEN testExemptionDetails.reason = FALLBACK_REASON
            ELSE testExemptionDetails.reason = trim(LastCall.body)

C11_Witness ==
  /\ ExemptionDecided
  /\ testExemptionDetails.isExempt
  /\ testExemptionDetails.reason = FALLBACK_REASON
  /\ \E i \in ReasonCalls : ~calls[i].ok


\* C12: the gate lets a run through exactly for a pull-request event whose
\* action is opened, reopened or synchronize, and for a comment event whose
\* comment is on a pull request and whose body, leading white space skipped,
\* starts with /code_review; every other event ends the run at the gate.
CommandAfterWhiteSpace(body) ==
  \E k \in 0..Len(body) :
     /\ \A j \in 1..k : body[j] \in WhiteSpace
     /\ k + 12 <= Len(body)
     /\ SubSeq(body, k + 1, k + 12) = B_bare

AcceptedTrigger(ev) ==
  \/ /\ ~ev.hasComment
     /\ ev.pull_request
     /\ ev.action \in { "opened", "reopened", "synchronize" }
  \/ /\ ev.hasComment
     /\ ev.issuePR
     /\ CommandAfterWhiteSpace(ev.comment)

C12_GateAcceptsExactly ==
  pc # "start" =>
     /\ AcceptedTrigger(eventData) => pc = "getPRDetails"
     /\ ~AcceptedTrigger(eventData) => pc = "done"

C12_Witness ==
  /\ pc = "getPRDetails"
  /\ eventData.hasComment
  /\ eventData.comment = B_padded


\* C13: a run the gate rejects makes no external call and returns normally;
\* a run whose diff is empty or missing makes only the three platform reads
\* that precede the "No diff found" return (no comment, no review, no
\* webhook, no AI call) and returns normally.
GateRejected == pc # "start" /\ ~AcceptedTrigger(eventData)

NoDiffFound ==
  /\ ~diffFound
  /\ calls # <<>>
  /\ calls[Len(calls)].api = "pulls.get.diff"
  /\ calls[Len(calls)].ok

C13_NoEffectWhenNothingToDo ==
  /\ GateRejected => (pc = "done" /\ calls = <<>> /\ error = "")
  /\ NoDiffFound =>
       /\ pc = "done"
       /\ error = ""
       /\ AcceptedTrigger(eventData)
       /\ Len(calls) = 3
       /\ \A i \in DOMAIN calls :
            calls[i].api \in { "pulls.get", "users.getByUsername", "pulls.get.diff" }

C13_Witness ==
  /\ NoDiffFound
  /\ pc = "done"
  /\ eventData.hasComment


\* C14: a failed platform call is the last external call of its run, and
\* the run ends there as a failure (nonzero exit): after a failed warning
\* comment no webhook is sent and no review is created, and after a failed
\* review a warning comment posted earlier is still the run's posted
\* comment, no call having been made to undo it.
PlatformApis ==
  { "pulls.get", "users.getByUsername", "pulls.get.diff",
    "issues.createComment", "pulls.createReview" }

FailedPlatformCalls ==
  { i \in DOMAIN calls : calls[i].api \in PlatformApis /\ ~calls[i].ok }

C14_PlatformFailureIsFatal ==
  /\ \A i \in FailedPlatformCalls :
       /\ i = Len(calls)
       /\ pc = "failed"
       /\ error = "platform"
  /\ error = "platform" => FailedPlatformCalls # {}
  /\ (\E w \in Warnings : ~calls[w].ok) => (Webhooks = {} /\ Reviews = {})
  /\ (\E r \in Reviews : ~calls[r].ok) =>
       \A i \in DOMAIN calls :
          i < Len(calls) =>
             /\ calls[i].ok \/ calls[i].api \in { "webhook", "ai.reason" }
             /\ calls[i].api \in PlatformApis \cup { "webhook", "ai.reason", "ai.review" }

C14_Witness ==
  /\ pc = "failed"
  /\ \E w \in Warnings : calls[w].ok
  /\ \E r \in Reviews : ~calls[r].ok


\* ------------------------------------------------------------------------
\* Properties of the test analysis (AnalysisSpec)
\* ------------------------------------------------------------------------
Segments(path) == split(path, "/")

FileName(path) == Segments(path)[Len(Segments(path))]

TestDirNames ==
  { <<"t","e","s","t">>,
    <<"t","e","s","t","s">>,
    <<"_","_","t","e","s","t","s","_","_">>,
    <<"t","e","s","t","i","n","g">> }

\* some directory of the path has one of the names
UnderDirNamed(path, names) ==
  \E i \in 1..(Len(Segments(path)) - 1) : Segments(path)[i] \in names

NoDotSegment(path) ==
  \A i \in 1..Len(Segments(path)) : ~DotSegment(Segments(path)[i])

NameHasOneOf(path, words) ==
  \E w \in words : includes(FileName(path), w)

\* C15 as claimed: needsTests is false for every file under a directory
\* named test, tests, __tests__ or testing and for every file whose filename
\* contains "test" or "spec" in any letter case.
C15_Original ==
  \A i \in DOMAIN parsedDiff :
     LET path == parsedDiff[i].to
     IN ( \/ UnderDirNamed(path, TestDirNames)
          \/ NameHasOneOf(toLowerCase(path), { <<"t","e","s","t">>, <<"s","p","e","c">> }) )
        => ~needsTests(parsedDiff[i])

\* C15 as amended: needsTests is false for every file whose path matches a
\* test pattern as minimatch evaluates it, that is, with no path segment
\* beginning with ".", every file under a directory named test, tests,
\* __tests__ or testing and every file whose filename contains test, Test,
\* spec or Spec in exactly one of these casings; such a file is never among
\* the affected files.
C15_TestPathsNeverNeedTests ==
  \A i \in DOMAIN parsedDiff :
     LET path == parsedDiff[i].to
     IN ( /\ NoDotSegment(path)
          /\ \/ UnderDirNamed(path, TestDirNames)
             \/ NameHasOneOf(path, { <<"t","e","s","t">>, <<"T","e","s","t">>, <<"s","p","e","c">>, <<"S","p","e","c">> }) )
        => /\ ~needsTests(parsedDiff[i])
           /\ \A k \in DOMAIN testAnalysis.affectedFiles :
                testAnalysis.affectedFiles[k] # path

C15_Witness ==
  /\ pc = "exemption"
  /\ Len(parsedDiff) = 2
  /\ parsedDiff[1].to = P_WidgetTest
  /\ parsedDiff[2].to = P_util
  /\ testAnalysis.affectedFiles = << P_util >>


\* C16: for a file matching no test pattern, needsTests is true if and only
\* if the path ends with one of the 13 allow-listed extensions (the text from
\* its last "." on) and contains none of the 8 deny-list fragments; a path
\* without any "." and the empty path yield false.
EndsWith(path, suffix) ==
  /\ Len(suffix) <= Len(path)
  /\ SubSeq(path, Len(path) - Len(suffix) + 1, Len(path)) = suffix

HasDot(path) == \E i \in 1..Len(path) : path[i] = "."

C16_ExtensionAndDenyList ==
  /\ Cardinality(testableExtensions) = 13
  /\ Cardinality(excludePatterns) = 8
  /\ \A i \in DOMAIN parsedDiff :
       LET path == parsedDiff[i].to
       IN /\ ~MatchesTestPattern(path) =>
               ( needsTests(parsedDiff[i]) <=>
                   /\ \E e \in testableExtensions : EndsWith(path, e)
                   /\ \A d \in excludePatterns : ~includes(path, d) )
          /\ ~HasDot(path) => ~needsTests(parsedDiff[i])

C16_Witness ==
  /\ pc = "exemption"
  /\ Len(parsedDiff) = 2
  /\ parsedDiff[1].to = P_Makefile
  /\ parsedDiff[2].to = P_appConfig
  /\ testAnalysis.affectedFiles = <<>>


\* the candidate fragments of a file requiring tests as C17 lists them; a
\* substitution leaves a path without the prefix as it is
ListedCandidates(path) ==
  LET base == stripExtension(path)
  IN { base \o <<"_","t","e","s","t">>, base \o <<".","t","e","s","t">>, base \o <<".","s","p","e","c">>, <<"t","e","s","t","_">> \o base,
       replaceFirst(base, <<"s","r","c","/">>, <<"t","e","s","t","/">>),
       replaceFirst(base, <<"s","r","c","/">>, <<"t","e","s","t","s","/">>),
       replaceFirst(base, <<"a","p","p","/">>, <<"t","e","s","t","s","/">>) }

TestPathsInDiff ==
  { parsedDiff[i].to : i \in { k \in DOMAIN parsedDiff : isTestFile(parsedDiff[k]) } }

InSeq(x, seq) == \E i \in DOMAIN seq : seq[i] = x

\* C17: a file requiring tests is in missingTests if and only if no test
\* file of the diff contains, ignoring case, one of its listed candidate
\* fragments; missingTests is a subset of affectedFiles; with src/widget.ts
\* and tests/widget.test.ts in the diff, src/widget.ts is not missing.
C17_MissingIffNoListedCandidate ==
  pc = "exemption" =>
    /\ \A k \in DOMAIN testAnalysis.affectedFiles :
         LET f == testAnalysis.affectedFiles[k]
         IN InSeq(f, testAnalysis.missingTests) <=>
              ~\E t \in TestPathsInDiff : \E c \in ListedCandidates(f) :
                   includes(toLowerCase(t), toLowerCase(c))
    /\ \A k \in DOMAIN testAnalysis.missingTests :
         InSeq(testAnalysis.missingTests[k], testAnalysis.affectedFiles)
    /\ ( InSeq(P_widget, PathsOf(parsedDiff)) /\ InSeq(P_widgetTest, PathsOf(parsedDiff)) )
         => ~InSeq(P_widget, testAnalysis.missingTests)


\* C18: with app/views.py and tests/tests.py both in the diff, the
\* views/models substitution rule makes tests/tests.py cover app/views.py,
\* which is then not in missingTests.
C18_DjangoRuleCovers ==
  ( /\ pc = "exemption"
    /\ InSeq(P_views, testAnalysis.affectedFiles)
    /\ InSeq(P_testsPy, PathsOf(parsedDiff)) )
  => ~InSeq(P_views, testAnalysis.missingTests)


\* C19: hasTestExemption(description) is true if and only if one of the five
\* phrases occurs somewhere in the description when letter case is ignored:
\* at some position every character of the description, lower-cased, is the
\* character of the phrase.
PhraseAt(desc, phrase, i) ==
  /\ i + Len(phrase) - 1 <= Len(desc)
  /\ \A j \in 1..Len(phrase) : LowerChar(desc[i + j - 1]) = phrase[j]

C19_ExemptionIsPhraseMatch ==
  /\ Len(EXEMPTION_KEYWORDS) = 5
  /\ pc = "done" =>
       /\ hasTestExemption(description) <=>
            \E k \in 1..5 : \E i \in 1..Len(description) :
                 PhraseAt(description, EXEMPTION_KEYWORDS[k], i)
       /\ testExemptionDetails.isExempt <=> hasTestExemption(description)

C19_Witness ==
  /\ pc = "done"
  /\ testExemptionDetails.isExempt
  /\ description = <<"D","o","c","s",":"," ">> \o <<"N","A~","O"," ","R","E","Q","U","E","R"," ","T","E","S","T","E">> \o <<" ","o","k">>


\* C20: the exclude list only restricts the files sent to the AI review:
\* when the review phase is entered with a list that excludes files, the
\* test analysis in force is still the analysis of the full parsed diff; the
\* warning was decided on it and the approval body is chosen on it, and the
\* AI is called only for files of the diff that the exclude patterns leave
\* (each call is examined in the state its step leads to).
ExcludedByDocsList(path) ==
  \/ path = <<"y","a","r","n",".","l","o","c","k">>
  \/ /\ EndsWith(path, <<".","m","d">>)
     /\ Len(FileName(path)) > 3
     /\ NoDotSegment(path)

LeftByExcludeList(path) ==
  IF excludeInput = X_docs THEN ~ExcludedByDocsList(path) ELSE TRUE

ReviewJustEntered == pc = "review" /\ hunk = 0

C20_ExcludeOnlyRestrictsReview ==
  /\ (ReviewJustEntered /\ excludeInput = X_docs) =>
       testAnalysis = analyzeTests(parsedDiff)
  /\ ReviewJustEntered =>
       /\ Warnings # {} <=> warningCondition(testAnalysis, testExemptionDetails)
       /\ Len(filteredDiff) <= Len(parsedDiff)
       /\ \A i \in DOMAIN parsedDiff :
            InSeq(parsedDiff[i], filteredDiff) <=> LeftByExcludeList(parsedDiff[i].to)
  /\ (calls # <<>> /\ LastCall.api = "ai.review") =>
       \E i \in DOMAIN filteredDiff : filteredDiff[i].to = LastCall.body
  /\ ( /\ reviewPhase = "returned"
       /\ LastCall.api = "pulls.createReview"
       /\ LastCall.event = "APPROVE" ) =>
       LastCall.body =
         IF warningCondition(testAnalysis, [ isExempt |-> FALSE ])
            /\ testExemptionDetails.isExempt
         THEN LGTM_EXEMPT \o testExemptionDetails.reason
         ELSE LGTM_PLAIN

C20_Witness ==
  /\ pc = "done"
  /\ excludeInput = X_docs
  /\ PathsOf(parsedDiff) = << P_util, P_contest >>
  /\ PathsOf(filteredDiff) = << P_util >>
  /\ testAnalysis.hasTests
  /\ Warnings = {}
  /\ ReviewsWith("APPROVE") # {}


\* a run in evaluate-tests-only mode that is past the warning block without
\* a warning
FlagSetNoWarning == AVALIAR_TEST_PR /\ PastWarningBlock /\ Warnings = {}

\* C21 as claimed: in evaluate-tests-only mode a PR for which no warning
\* fires gets no AI review and no approval: the run creates no review.
C21_Original ==
  FlagSetNoWarning => (AIReviewCalls = {} /\ Reviews = {})

\* C21 as amended: in evaluate-tests-only mode a PR for which no warning
\* fires gets no AI review call and no COMMENT review, but it does get the
\* approval: a run that returns has made exactly one review call, an
\* APPROVE without comments, and a run that failed there made that call and
\* had it rejected.
C21_FlagSetStillApproves ==
  FlagSetNoWarning =>
     /\ AIReviewCalls = {}
     /\ reviewPhase = "no"
     /\ ReviewsWith("COMMENT") = {}
     /\ pc \in { "codeReview", "approve", "done", "failed" }
     /\ pc \in { "codeReview", "approve" } => Reviews = {}
     /\ Ended =>
          /\ Cardinality(Reviews) = 1
          /\ LastCall.api = "pulls.createReview"
          /\ LastCall.event = "APPROVE"
          /\ LastCall.list = <<>>
          /\ LastCall.ok <=> pc = "done"

C21_Witness ==
  /\ FlagSetNoWarning
  /\ pc = "done"
  /\ testExemptionDetails.isExempt
  /\ Len(testAnalysis.missingTests) > 0
  /\ LastCall.event = "APPROVE"
  /\ LastCall.body = LGTM_EXEMPT \o testExemptionDetails.reason


\* C22: the test analysis partitions the changed files: no changed file is
\* both in affectedFiles and among the test files that make hasTests true,
\* so a diff made of files needing tests only never has hasTests true and
\* never has one of them covered.
C22_AffectedAndTestFilesDisjoint ==
  pc = "exemption" =>
    /\ \A i \in DOMAIN parsedDiff :
         ~(isAffectedFile(parsedDiff[i]) /\ isTestFile(parsedDiff[i]))
    /\ Len(testAnalysis.affectedFiles) = Len(parsedDiff) =>
         /\ ~testAnalysis.hasTests
         /\ testAnalysis.missingTests = testAnalysis.affectedFiles


\* C23: a run that passed the gate eventually ends, by returning or by
\* throwing, when every external service answers; in particular a run whose
\* webhook POST was answered goes on to the step after the warning block.
C23_RunEventuallyEnds == (pc = "getPRDetails") ~> Ended


\* the destination path of every hunk of the files of the diff that are not
\* deleted and that the exclude patterns leave, in diff order
RECURSIVE HunkPaths(_)
HunkPaths(files) ==
  IF files = <<>> THEN <<>>
  ELSE LET file == Head(files)
       IN (IF file.to # P_devNull /\ LeftByExcludeList(file.to)
           THEN [ c \in 1..file.chunks |-> file.to ]
           ELSE <<>>)
          \o HunkPaths(Tail(files))

\* the calls of the AI backend for hunks, in the order they were made
ReviewLog ==
  LET isReview(c) == c.api = "ai.review"
  IN SelectSeq(calls, isReview)

\* one comment per pair of the answer of a call, in the order of the answer
CommentsFor(call) ==
  [ j \in 1..Len(call.list) |->
      [ body |-> call.list[j].reviewComment,
        path |-> call.body,
        line |-> Number(call.list[j].lineNumber) ] ]

RECURSIVE CommentsOfLog(_)
CommentsOfLog(log) ==
  IF log = <<>> THEN <<>>
  ELSE CommentsFor(Head(log)) \o CommentsOfLog(Tail(log))

CommentReviewPosted ==
  /\ calls # <<>>
  /\ LastCall.api = "pulls.createReview"
  /\ LastCall.event = "COMMENT"

\* C24: the hunks of the non-deleted, non-excluded files are submitted to the
\* AI one at a time in diff file order then hunk order (the next one only
\* when the previous one was answered), and the comment list of the COMMENT
\* review is the concatenation, in that order and then in the order of each
\* answer's reviews array, of one comment per pair with the file's path,
\* Number(lineNumber) and reviewComment.
C24_CommentsInHunkOrder ==
  /\ Len(ReviewLog) <= Len(HunkPaths(parsedDiff))
  /\ \A i \in DOMAIN ReviewLog : ReviewLog[i].body = HunkPaths(parsedDiff)[i]
  /\ pc = "review" => Len(ReviewLog) = hunk
  /\ CommentReviewPosted =>
       /\ Len(ReviewLog) = Len(HunkPaths(parsedDiff))
       /\ LastCall.list = CommentsOfLog(ReviewLog)

C24_Witness ==
  /\ pc = "done"
  /\ CommentReviewPosted
  /\ PathsOf(parsedDiff) = << P_contest, P_util >>
  /\ excludeInput = X_docs
  /\ Len(ReviewLog) = 2
  /\ LastCall.list = << [ body |-> "c2", path |-> P_util, line |-> 7 ],
                        [ body |-> "c1", path |-> P_util, line |-> 12 ],
                        [ body |-> "c1", path |-> P_util, line |-> 12 ] >>


====
